---- MODULE Spec2Model ----
(***************************************************************************)
(* Model of bedrock::telemetry::metrics (src/bedrock/src/telemetry/        *)
(* metrics/mod.rs): the collection pipeline `collect`, the info-metric     *)
(* registry written by `report_info`, and the registries they read.        *)
(*                                                                         *)
(* One collecting thread and two reporting threads run against the         *)
(* process-wide registries.  Every lock acquisition of the source is a     *)
(* step of its own; a guard is dropped in the step that ends the statement *)
(* holding it.  The exposition text is modelled line by line: every metric *)
(* yields a header line and a sample line.                                 *)
(*                                                                         *)
(* A second specification, FamilySpec, has two threads of application code *)
(* access one histogram family whose metrics HistogramBuilder constructs;  *)
(* FairSpec is Spec under fair scheduling.                                 *)
(***************************************************************************)
EXTENDS Integers, Sequences, FiniteSets, TLC

\* ------------------------------------------------------------- bounds
\* Upper bound on the number of registry mutations in one behaviour.
MaxGen == 2

\* ------------------------------------------------------------- threads
Collectors == {"c1"}
Reporters == {"r1", "r2"}
Threads == Collectors \cup Reporters

\* ------------------------------------------------------------- info metrics
\* TypeId::of::<M>() of the info-metric types of the program.
TypeIds == {"BuildInfo", "BuildInformation"}

\* InfoMetric::NAME: BuildInformation is renamed to the snake_case name of
\* BuildInfo, so two types share one exposition name.
NAME(T) == "build_info"

\* InfoMetric::HELP.
HELP(T) == "Build information"

Versions == {"1.0", "2.0"}
Unserializable == "unserializable"
\* The values an info-metric instance can hold; one of them cannot be
\* serialized into a label set.
Instances == Versions \cup {Unserializable}
NoEntry == "none"

\* ------------------------------------------------------------- registries
StdMetrics == <<"client_connections_total">>
OptMetrics == <<"debug_stalled_future_count">>
ThirdPartyMetrics == <<"process_open_fds">>

Range(s) == {s[i] : i \in 1..Len(s)}

Registries == {"info", "std", "opt"}
NoThread == "nobody"

\* ------------------------------------------------------------- metric families
\* Upper bound on the number of accesses to the family in one behaviour.
MaxObs == 3

\* Threads of application code that use the family's accessor function.
Callers == {"a1", "a2"}

\* The label sets the accessor is called with (label `task`).
LabelSets == {<<"a">>, <<"b">>}
NoLabels == <<>>

\* The metric types HistogramBuilder constructs.
MetricTypes == {"Histogram", "TimeHistogram"}

\* Bucket specifications a HistogramBuilder can carry: `buckets` is any static
\* slice, so also one that is not ascending or has a boundary twice.
BucketSpecs == {<<1, 2>>, <<2, 1>>, <<1, 1>>}

\* The values observed.
Samples == {1, 2, 3}

\* Metric objects live at addresses; Null is no object.
Null == 0
Addresses == 1..(Cardinality(LabelSets) + Cardinality(Callers))
NoObject == [live |-> FALSE, type |-> "", bounds |-> <<>>, counts |-> <<>>]

VARIABLES
    INFO_REGISTRY,    \* TypeId -> stored instance, or NoEntry
    infoOrder,        \* iteration order of the keys INFO_REGISTRY holds
    REGISTRY,         \* standard registry: metric -> value
    OPT_REGISTRY,     \* optional registry: metric -> value
    THIRD_PARTY,      \* prometheus default registry: metric -> value
    readers,          \* registry -> threads holding its read lock
    writer,           \* registry -> thread holding its write lock, or NoThread
    pc,               \* thread -> position in its current call
    collect_optional, \* collector -> flag of its current call
    buffer,           \* collector -> the caller's buffer
    buffer0,          \* collector -> the buffer as it was when collect was called
    seen,             \* collector -> the steps run, the one that failed, what each read
    mutated,          \* collector -> a registry changed since its call began
    lastOut,          \* output of the latest quiet collect(false) since the last mutation
    info_metric,      \* reporter -> <<type, instance>> of its current call
    gen,              \* number of registry mutations so far
    lastLocked,       \* TypeId -> instance of the call that last took the write lock for it
    existed,          \* the contents the standard and optional registry have had together
    ctor,             \* the HistogramBuilder of the histogram family
    metricType,       \* the metric type of the family
    family,           \* label set -> address of its metric, or Null
    heap,             \* address -> the metric object there
    at,               \* caller -> position in its access to the family
    labelSet,         \* caller -> the label set of its access
    fresh,            \* caller -> address of the metric it constructed, or Null
    handle,           \* caller -> address of the metric its access returned, or Null
    observed          \* label set -> observations made through handles so far

vars == <<INFO_REGISTRY, infoOrder, REGISTRY, OPT_REGISTRY, THIRD_PARTY, readers,
          writer, pc, collect_optional, buffer, buffer0, seen, mutated, lastOut,
          info_metric, gen, lastLocked, existed,
          ctor, metricType, family, heap, at, labelSet, fresh, handle, observed>>

famvars == <<ctor, metricType, family, heap, at, labelSet, fresh, handle, observed>>
core == <<INFO_REGISTRY, infoOrder, REGISTRY, OPT_REGISTRY, THIRD_PARTY, readers,
          writer, pc, collect_optional, buffer, buffer0, seen, mutated, lastOut,
          info_metric, gen, lastLocked, existed>>

regs == <<INFO_REGISTRY, infoOrder, REGISTRY, OPT_REGISTRY, THIRD_PARTY>>
locks == <<readers, writer>>
locals == <<collect_optional, buffer, buffer0, seen>>

\* ------------------------------------------------------------- exposition text
HeaderLine(name, help) ==
    [kind |-> "header", name |-> name, help |-> help, labels |-> <<>>, value |-> 0]
SampleLine(name, labels, value) ==
    [kind |-> "sample", name |-> name, help |-> "", labels |-> labels, value |-> value]
\* Bytes a caller left in the buffer before calling collect.
PreLine == [kind |-> "pre", name |-> "", help |-> "", labels |-> <<>>, value |-> 0]

\* Serialization of an info-metric instance into its label set.
Serializable(inst) == inst \in Versions
Labels(inst) == <<"version", inst>>

\* One exposition record of an info metric: value 1, labels from the instance.
InfoRecord(T, inst) ==
    <<HeaderLine(NAME(T), HELP(T)), SampleLine(NAME(T), Labels(inst), 1)>>

\* [ok, out]: what encoding the info metrics in iteration order writes.  It
\* stops at the first instance that does not serialize, after that metric's
\* header line.
RECURSIVE EncodeInfo(_, _)
EncodeInfo(order, reg) ==
    IF order = <<>> THEN [ok |-> TRUE, out |-> <<>>]
    ELSE LET T == Head(order)
             rest == EncodeInfo(Tail(order), reg)
         IN IF Serializable(reg[T])
            THEN [ok |-> rest.ok, out |-> InfoRecord(T, reg[T]) \o rest.out]
            ELSE [ok |-> FALSE, out |-> <<HeaderLine(NAME(T), HELP(T))>>]

\* The text of a registry of counters, in registration order.
RECURSIVE EncodeRegistry(_, _)
EncodeRegistry(names, reg) ==
    IF names = <<>> THEN <<>>
    ELSE <<HeaderLine(Head(names), "counter"),
           SampleLine(Head(names), <<>>, reg[Head(names)])>>
         \o EncodeRegistry(Tail(names), reg)

Prefix(s, k) == SubSeq(s, 1, k)
IsPrefix(s, t) == Len(s) <= Len(t) /\ SubSeq(t, 1, Len(s)) = s

\* The outcomes of a failed encoding whose complete text would be `out`: an
\* error, with any prefix of the text already written.
Failures(out) == {[ok |-> FALSE, out |-> Prefix(out, k)] : k \in 0..Len(out)}

\* internal::collect_info_metrics: the possible results of encoding the info
\* registry as it stands.
collect_info_metrics(order, reg) ==
    LET enc == EncodeInfo(order, reg)
    IN IF enc.ok THEN {[ok |-> TRUE, out |-> enc.out]} ELSE Failures(enc.out)

\* internal::encode_registry: the possible results of encoding a registry; the
\* encoder may fail at any point of the text.
encode_registry(names, reg) ==
    {[ok |-> TRUE, out |-> EncodeRegistry(names, reg)]}
        \cup Failures(EncodeRegistry(names, reg))

\* TextEncoder::new().encode(&prometheus::gather(), buffer).
text_encode(names, reg) ==
    {[ok |-> TRUE, out |-> EncodeRegistry(names, reg)]}
        \cup Failures(EncodeRegistry(names, reg))

\* ------------------------------------------------------------- initial state
NothingSeen ==
    [steps |-> {},
     failed |-> "none",
     info |-> [T \in TypeIds |-> NoEntry],
     order |-> <<>>,
     std |-> [m \in Range(StdMetrics) |-> 0],
     opt |-> [m \in Range(OptMetrics) |-> 0],
     third |-> [m \in Range(ThirdPartyMetrics) |-> 0]]

NoOutput == [valid |-> FALSE, out |-> <<>>]
NoArgument == <<NoEntry, NoEntry>>

\* The registries, locks and threads of the collection pipeline at start.
CoreInit ==
    /\ INFO_REGISTRY = [T \in TypeIds |-> NoEntry]
    /\ infoOrder = <<>>
    /\ REGISTRY = [m \in Range(StdMetrics) |-> 0]
    /\ OPT_REGISTRY = [m \in Range(OptMetrics) |-> 0]
    /\ THIRD_PARTY = [m \in Range(ThirdPartyMetrics) |-> 0]
    /\ readers = [r \in Registries |-> {}]
    /\ writer = [r \in Registries |-> NoThread]
    /\ pc = [t \in Threads |-> "idle"]
    /\ collect_optional = [c \in Collectors |-> FALSE]
    /\ buffer = [c \in Collectors |-> <<>>]
    /\ buffer0 = [c \in Collectors |-> <<>>]
    /\ seen = [c \in Collectors |-> NothingSeen]
    /\ mutated = [c \in Collectors |-> FALSE]
    /\ lastOut = NoOutput
    /\ info_metric = [r \in Reporters |-> NoArgument]
    /\ gen = 0
    /\ lastLocked = [T \in TypeIds |-> NoEntry]
    /\ existed = {[std |-> [m \in Range(StdMetrics) |-> 0],
                   opt |-> [m \in Range(OptMetrics) |-> 0]]}

\* No label set of the family has a metric yet and no caller is inside an access.
FamilyEmpty ==
    /\ family = [l \in LabelSets |-> Null]
    /\ heap = [x \in Addresses |-> NoObject]
    /\ at = [a \in Callers |-> "idle"]
    /\ labelSet = [a \in Callers |-> NoLabels]
    /\ fresh = [a \in Callers |-> Null]
    /\ handle = [a \in Callers |-> Null]
    /\ observed = [l \in LabelSets |-> 0]

\* The pipeline at start; the histogram family is declared and not in use.
Init ==
    /\ CoreInit
    /\ ctor = [buckets |-> <<1, 2>>]
    /\ metricType = "TimeHistogram"
    /\ FamilyEmpty

\* The family at start, declared with any bucket specification and either
\* metric type; the pipeline is at rest.
FamilyInit ==
    /\ CoreInit
    /\ ctor \in [buckets : BucketSpecs]
    /\ metricType \in MetricTypes
    /\ FamilyEmpty

\* ------------------------------------------------------------- locks
\* RwLock::read: granted while no thread holds the write lock.
ReadLock(reg, t) ==
    /\ writer[reg] = NoThread
    /\ readers' = [readers EXCEPT ![reg] = @ \cup {t}]
    /\ UNCHANGED writer

\* A read guard that outlives its statement: the lock stays held.
ReadUnlock_Leak(reg, t) ==
    UNCHANGED <<readers, writer>>

\* Dropping a read guard.
ReadUnlock(reg, t) ==
    /\ readers' = [readers EXCEPT ![reg] = @ \ {t}]
    /\ UNCHANGED writer

\* WriteLock granted while another thread holds the write guard.
WriteLock_NotExclusive(reg, t) ==
    /\ readers[reg] = {}
    /\ writer' = [writer EXCEPT ![reg] = t]
    /\ UNCHANGED readers

\* WriteLock granted while read guards are out.
WriteLock_IgnoresReaders(reg, t) ==
    /\ writer[reg] = NoThread
    /\ writer' = [writer EXCEPT ![reg] = t]
    /\ UNCHANGED readers

\* RwLock::write: granted while no thread holds the lock in either mode.
WriteLock(reg, t) ==
    /\ writer[reg] = NoThread
    /\ readers[reg] = {}
    /\ writer' = [writer EXCEPT ![reg] = t]
    /\ UNCHANGED readers

\* A write guard that is never dropped: the lock stays held.
WriteUnlock_Leak(reg, t) ==
    UNCHANGED <<readers, writer>>

\* Dropping a write guard.
WriteUnlock(reg, t) ==
    /\ writer' = [writer EXCEPT ![reg] = NoThread]
    /\ UNCHANGED readers

\* ------------------------------------------------------------- mutation bookkeeping
\* A registry changed: every collect call in progress has seen a mutation.
Mutation ==
    /\ gen' = gen + 1
    /\ mutated' = [c \in Collectors |-> mutated[c] \/ pc[c] # "idle"]
    /\ lastOut' = NoOutput

\* ------------------------------------------------------------- collect
\* The statement collect starts with.
FirstStep == "info"

\* NextStep with the optional registry encoded ahead of the standard one.
NextStep_OptFirst(step, flag) ==
    CASE step = "info" -> IF flag THEN "opt" ELSE "std"
      [] step = "opt" -> "std"
      [] step = "std" -> "third"
      [] step = "third" -> "ok"

\* NextStep with the optional registry encoded whatever the flag says.
NextStep_IgnoresFlag(step, flag) ==
    CASE step = "info" -> "std"
      [] step = "std" -> "opt"
      [] step = "opt" -> "third"
      [] step = "third" -> "ok"

\* NextStep with the third-party registry gathered only on the optional path.
NextStep_ThirdOnlyWithOpt(step, flag) ==
    CASE step = "info" -> "std"
      [] step = "std" -> IF flag THEN "opt" ELSE "ok"
      [] step = "opt" -> "third"
      [] step = "third" -> "ok"

\* The order of collect's statements: the info metrics, the standard registry,
\* the optional registry when collect_optional is set, the third-party
\* registry, then Ok(()).
NextStep(step, flag) ==
    CASE step = "info" -> "std"
      [] step = "std" -> IF flag THEN "opt" ELSE "third"
      [] step = "opt" -> "third"
      [] step = "third" -> "ok"

\* Try with the error dropped: the next statement runs whatever the result.
Try_Ignore(ok, next) == next

\* The ? operator: an Err returns at once, an Ok goes on to the next statement.
Try(ok, next) == IF ok THEN next ELSE "err"

\* A caller hands collect its buffer, empty or already holding bytes, and the flag.
CollectCall(c) ==
    /\ pc[c] = "idle"
    /\ \E flag \in BOOLEAN, b0 \in {<<>>, <<PreLine>>} :
        /\ collect_optional' = [collect_optional EXCEPT ![c] = flag]
        /\ buffer' = [buffer EXCEPT ![c] = b0]
        /\ buffer0' = [buffer0 EXCEPT ![c] = b0]
    /\ seen' = [seen EXCEPT ![c] = NothingSeen]
    /\ mutated' = [mutated EXCEPT ![c] = FALSE]
    /\ pc' = [pc EXCEPT ![c] = FirstStep]
    /\ UNCHANGED <<regs, locks, lastOut, info_metric, gen,
                   lastLocked, existed, famvars>>

\* collect_info_metrics takes the info registry's read lock.
InfoLock(c) ==
    /\ pc[c] = "info"
    /\ ReadLock("info", c)
    /\ pc' = [pc EXCEPT ![c] = "info_encode"]
    /\ UNCHANGED <<regs, locals, mutated, lastOut, info_metric, gen,
                   lastLocked, existed, famvars>>

\* CollectInfo with the result of collect_info_metrics discarded.
CollectInfo_Discards(c) ==
    /\ pc[c] = "info_encode"
    /\ \E r \in collect_info_metrics(infoOrder, INFO_REGISTRY) :
        /\ buffer' = [buffer EXCEPT ![c] = @ \o r.out]
        /\ pc' = [pc EXCEPT ![c] = NextStep("info", collect_optional[c])]
        /\ seen' = [seen EXCEPT ![c].steps = @ \cup {"info"},
                                ![c].failed = IF r.ok THEN @ ELSE "info",
                                ![c].info = INFO_REGISTRY,
                                ![c].order = infoOrder]
    /\ ReadUnlock("info", c)
    /\ UNCHANGED <<regs, collect_optional, buffer0, mutated, lastOut, info_metric, gen,
                   lastLocked, existed, famvars>>

\* CollectInfo that takes the entries out of the info registry as it encodes them.
CollectInfo_Drains(c) ==
    /\ pc[c] = "info_encode"
    /\ \E r \in collect_info_metrics(infoOrder, INFO_REGISTRY) :
        /\ buffer' = [buffer EXCEPT ![c] = @ \o r.out]
        /\ pc' = [pc EXCEPT ![c] = Try(r.ok, NextStep("info", collect_optional[c]))]
        /\ seen' = [seen EXCEPT ![c].steps = @ \cup {"info"},
                                ![c].failed = IF r.ok THEN @ ELSE "info",
                                ![c].info = INFO_REGISTRY,
                                ![c].order = infoOrder]
    /\ INFO_REGISTRY' = [T \in TypeIds |-> NoEntry]
    /\ infoOrder' = <<>>
    /\ ReadUnlock("info", c)
    /\ UNCHANGED <<REGISTRY, OPT_REGISTRY, THIRD_PARTY, collect_optional, buffer0,
                   mutated, lastOut, info_metric, gen, lastLocked, existed, famvars>>

\* collect_info_metrics(buffer)?
CollectInfo(c) ==
    /\ pc[c] = "info_encode"
    /\ \E r \in collect_info_metrics(infoOrder, INFO_REGISTRY) :
        /\ buffer' = [buffer EXCEPT ![c] = @ \o r.out]
        /\ pc' = [pc EXCEPT ![c] = Try(r.ok, NextStep("info", collect_optional[c]))]
        /\ seen' = [seen EXCEPT ![c].steps = @ \cup {"info"},
                                ![c].failed = IF r.ok THEN @ ELSE "info",
                                ![c].info = INFO_REGISTRY,
                                ![c].order = infoOrder]
    /\ ReadUnlock("info", c)
    /\ UNCHANGED <<regs, collect_optional, buffer0, mutated, lastOut, info_metric, gen,
                   lastLocked, existed, famvars>>

\* REGISTRY.read()
StdLock(c) ==
    /\ pc[c] = "std"
    /\ ReadLock("std", c)
    /\ pc' = [pc EXCEPT ![c] = "std_encode"]
    /\ UNCHANGED <<regs, locals, mutated, lastOut, info_metric, gen,
                   lastLocked, existed, famvars>>

\* CollectStd that zeroes the counters it has just encoded.
CollectStd_Resets(c) ==
    /\ pc[c] = "std_encode"
    /\ \E r \in encode_registry(StdMetrics, REGISTRY) :
        /\ buffer' = [buffer EXCEPT ![c] = @ \o r.out]
        /\ pc' = [pc EXCEPT ![c] = Try(r.ok, NextStep("std", collect_optional[c]))]
        /\ seen' = [seen EXCEPT ![c].steps = @ \cup {"std"},
                                ![c].failed = IF r.ok THEN @ ELSE "std",
                                ![c].std = REGISTRY]
    /\ ReadUnlock("std", c)
    /\ REGISTRY' = [m \in Range(StdMetrics) |-> 0]
    /\ UNCHANGED <<INFO_REGISTRY, infoOrder, OPT_REGISTRY, THIRD_PARTY, collect_optional,
                   buffer0, mutated, lastOut, info_metric, gen,
                   lastLocked, existed, famvars>>

\* encode_registry(buffer, &REGISTRY.read())?
CollectStd(c) ==
    /\ pc[c] = "std_encode"
    /\ \E r \in encode_registry(StdMetrics, REGISTRY) :
        /\ buffer' = [buffer EXCEPT ![c] = @ \o r.out]
        /\ pc' = [pc EXCEPT ![c] = Try(r.ok, NextStep("std", collect_optional[c]))]
        /\ seen' = [seen EXCEPT ![c].steps = @ \cup {"std"},
                                ![c].failed = IF r.ok THEN @ ELSE "std",
                                ![c].std = REGISTRY]
    /\ ReadUnlock("std", c)
    /\ UNCHANGED <<regs, collect_optional, buffer0, mutated, lastOut, info_metric, gen,
                   lastLocked, existed, famvars>>

\* if collect_optional { OPT_REGISTRY.read() }
OptLock(c) ==
    /\ pc[c] = "opt"
    /\ ReadLock("opt", c)
    /\ pc' = [pc EXCEPT ![c] = "opt_encode"]
    /\ UNCHANGED <<regs, locals, mutated, lastOut, info_metric, gen,
                   lastLocked, existed, famvars>>

\* CollectOpt that encodes the standard registry a second time.
CollectOpt_ReadsStd(c) ==
    /\ pc[c] = "opt_encode"
    /\ \E r \in encode_registry(StdMetrics, REGISTRY) :
        /\ buffer' = [buffer EXCEPT ![c] = @ \o r.out]
        /\ pc' = [pc EXCEPT ![c] = Try(r.ok, NextStep("opt", collect_optional[c]))]
        /\ seen' = [seen EXCEPT ![c].steps = @ \cup {"opt"},
                                ![c].failed = IF r.ok THEN @ ELSE "opt",
                                ![c].opt = OPT_REGISTRY]
    /\ ReadUnlock("opt", c)
    /\ UNCHANGED <<regs, collect_optional, buffer0, mutated, lastOut, info_metric, gen,
                   lastLocked, existed, famvars>>

\* CollectOpt that encodes the optional registry as it was first created, not
\* as it stands.
CollectOpt_Stale(c) ==
    /\ pc[c] = "opt_encode"
    /\ \E r \in encode_registry(OptMetrics, NothingSeen.opt) :
        /\ buffer' = [buffer EXCEPT ![c] = @ \o r.out]
        /\ pc' = [pc EXCEPT ![c] = Try(r.ok, NextStep("opt", collect_optional[c]))]
        /\ seen' = [seen EXCEPT ![c].steps = @ \cup {"opt"},
                                ![c].failed = IF r.ok THEN @ ELSE "opt",
                                ![c].opt = NothingSeen.opt]
    /\ ReadUnlock("opt", c)
    /\ UNCHANGED <<regs, collect_optional, buffer0, mutated, lastOut, info_metric, gen,
                   lastLocked, existed, famvars>>

\* encode_registry(buffer, &OPT_REGISTRY.read())?
CollectOpt(c) ==
    /\ pc[c] = "opt_encode"
    /\ \E r \in encode_registry(OptMetrics, OPT_REGISTRY) :
        /\ buffer' = [buffer EXCEPT ![c] = @ \o r.out]
        /\ pc' = [pc EXCEPT ![c] = Try(r.ok, NextStep("opt", collect_optional[c]))]
        /\ seen' = [seen EXCEPT ![c].steps = @ \cup {"opt"},
                                ![c].failed = IF r.ok THEN @ ELSE "opt",
                                ![c].opt = OPT_REGISTRY]
    /\ ReadUnlock("opt", c)
    /\ UNCHANGED <<regs, collect_optional, buffer0, mutated, lastOut, info_metric, gen,
                   lastLocked, existed, famvars>>

\* CollectThird that encodes into a cleared buffer.
CollectThird_Overwrites(c) ==
    /\ pc[c] = "third"
    /\ \E r \in text_encode(ThirdPartyMetrics, THIRD_PARTY) :
        /\ buffer' = [buffer EXCEPT ![c] = r.out]
        /\ pc' = [pc EXCEPT ![c] = Try(r.ok, NextStep("third", collect_optional[c]))]
        /\ seen' = [seen EXCEPT ![c].steps = @ \cup {"third"},
                                ![c].failed = IF r.ok THEN @ ELSE "third",
                                ![c].third = THIRD_PARTY]
    /\ UNCHANGED <<regs, locks, collect_optional, buffer0, mutated, lastOut,
                   info_metric, gen,
                   lastLocked, existed, famvars>>

\* TextEncoder::new().encode(&prometheus::gather(), buffer).map_err(..)?; Ok(())
CollectThird(c) ==
    /\ pc[c] = "third"
    /\ \E r \in text_encode(ThirdPartyMetrics, THIRD_PARTY) :
        /\ buffer' = [buffer EXCEPT ![c] = @ \o r.out]
        /\ pc' = [pc EXCEPT ![c] = Try(r.ok, NextStep("third", collect_optional[c]))]
        /\ seen' = [seen EXCEPT ![c].steps = @ \cup {"third"},
                                ![c].failed = IF r.ok THEN @ ELSE "third",
                                ![c].third = THIRD_PARTY]
    /\ UNCHANGED <<regs, locks, collect_optional, buffer0, mutated, lastOut,
                   info_metric, gen,
                   lastLocked, existed, famvars>>

\* The caller takes the result, Ok(()) or the error, and its buffer back.
CollectReturn(c) ==
    /\ pc[c] \in {"ok", "err"}
    /\ lastOut' = IF pc[c] = "ok" /\ ~collect_optional[c] /\ buffer0[c] = <<>>
                     /\ ~mutated[c]
                  THEN [valid |-> TRUE, out |-> buffer[c]]
                  ELSE lastOut
    /\ pc' = [pc EXCEPT ![c] = "idle"]
    /\ collect_optional' = [collect_optional EXCEPT ![c] = FALSE]
    /\ buffer' = [buffer EXCEPT ![c] = <<>>]
    /\ buffer0' = [buffer0 EXCEPT ![c] = <<>>]
    /\ seen' = [seen EXCEPT ![c] = NothingSeen]
    /\ mutated' = [mutated EXCEPT ![c] = FALSE]
    /\ UNCHANGED <<regs, locks, info_metric, gen,
                   lastLocked, existed, famvars>>

\* ------------------------------------------------------------- report_info
\* The calls in progress that will still mutate the info registry.
Pending == Cardinality({r \in Reporters : pc[r] # "idle"})

\* report_info(info_metric): the argument is boxed, its TypeId taken.
ReportCall(r) ==
    /\ pc[r] = "idle"
    /\ gen + Pending < MaxGen
    /\ \E T \in TypeIds, inst \in Instances :
        info_metric' = [info_metric EXCEPT ![r] = <<T, inst>>]
    /\ pc' = [pc EXCEPT ![r] = "write"]
    /\ UNCHANGED <<regs, locks, locals, mutated, lastOut, gen,
                   lastLocked, existed, famvars>>

\* INFO_REGISTRY.write()
ReportLock(r) ==
    /\ pc[r] = "write"
    /\ WriteLock("info", r)
    /\ lastLocked' = [lastLocked EXCEPT ![info_metric[r][1]] = info_metric[r][2]]
    /\ pc' = [pc EXCEPT ![r] = "insert"]
    /\ UNCHANGED <<regs, locals, mutated, lastOut, info_metric, gen,
                   existed, famvars>>

\* KeyOf by exposition name: all types of one NAME share one key.
KeyOf_ByName(T) == CHOOSE rep \in TypeIds : NAME(rep) = NAME(T)

\* The key under which report_info files an instance of type T.
KeyOf(T) == T

\* HashMap::insert: the value of a key already present is replaced in place; a
\* new key lands anywhere in the iteration order, which a rehash may permute.
InsertOrders(order, key) ==
    IF key \in Range(order) THEN {order}
    ELSE {o \in [1..(Len(order) + 1) -> Range(order) \cup {key}] :
            Range(o) = Range(order) \cup {key}}

\* ReportInsert that keeps the instance already stored for the type.
ReportInsert_KeepFirst(r) ==
    /\ pc[r] = "insert"
    /\ INFO_REGISTRY' =
          IF INFO_REGISTRY[KeyOf(info_metric[r][1])] = NoEntry
          THEN [INFO_REGISTRY EXCEPT ![KeyOf(info_metric[r][1])] = info_metric[r][2]]
          ELSE INFO_REGISTRY
    /\ infoOrder' \in InsertOrders(infoOrder, KeyOf(info_metric[r][1]))
    /\ WriteUnlock("info", r)
    /\ pc' = [pc EXCEPT ![r] = "idle"]
    /\ info_metric' = [info_metric EXCEPT ![r] = NoArgument]
    /\ Mutation
    /\ UNCHANGED <<REGISTRY, OPT_REGISTRY, THIRD_PARTY, locals,
                   lastLocked, existed, famvars>>

\* .insert(TypeId::of::<M>(), info_metric.into()); the write guard is dropped.
ReportInsert(r) ==
    /\ pc[r] = "insert"
    /\ INFO_REGISTRY' = [INFO_REGISTRY EXCEPT ![KeyOf(info_metric[r][1])] = info_metric[r][2]]
    /\ infoOrder' \in InsertOrders(infoOrder, KeyOf(info_metric[r][1]))
    /\ WriteUnlock("info", r)
    /\ pc' = [pc EXCEPT ![r] = "idle"]
    /\ info_metric' = [info_metric EXCEPT ![r] = NoArgument]
    /\ Mutation
    /\ UNCHANGED <<REGISTRY, OPT_REGISTRY, THIRD_PARTY, locals,
                   lastLocked, existed, famvars>>

\* ------------------------------------------------------------- metric updates
\* Counter::inc through a handle of a standard metric.
IncStd(m) ==
    /\ gen + Pending < MaxGen
    /\ REGISTRY' = [REGISTRY EXCEPT ![m] = @ + 1]
    /\ existed' = existed \cup {[std |-> REGISTRY', opt |-> OPT_REGISTRY]}
    /\ Mutation
    /\ UNCHANGED <<INFO_REGISTRY, infoOrder, OPT_REGISTRY, THIRD_PARTY, locks, pc,
                   locals, info_metric,
                   lastLocked, famvars>>

\* Counter::inc through a handle of an optional metric.
IncOpt(m) ==
    /\ gen + Pending < MaxGen
    /\ OPT_REGISTRY' = [OPT_REGISTRY EXCEPT ![m] = @ + 1]
    /\ existed' = existed \cup {[std |-> REGISTRY, opt |-> OPT_REGISTRY']}
    /\ Mutation
    /\ UNCHANGED <<INFO_REGISTRY, infoOrder, REGISTRY, THIRD_PARTY, locks, pc,
                   locals, info_metric,
                   lastLocked, famvars>>

\* An update of a metric of the prometheus default registry.
IncThirdParty(m) ==
    /\ gen + Pending < MaxGen
    /\ THIRD_PARTY' = [THIRD_PARTY EXCEPT ![m] = @ + 1]
    /\ Mutation
    /\ UNCHANGED <<INFO_REGISTRY, infoOrder, REGISTRY, OPT_REGISTRY, locks, pc,
                   locals, info_metric,
                   lastLocked, existed, famvars>>

\* ------------------------------------------------------------- histogram constructor
\* self.buckets.iter().cloned(): the boundaries of the slice, one by one, in
\* the order of the slice.
Cloned(slice) == [i \in 1..Len(slice) |-> slice[i]]

\* Histogram::new(buckets): a histogram with a count of zero for every
\* boundary handed in, and for +Inf after them.
Histogram_new(buckets) ==
    [live |-> TRUE, type |-> "Histogram", bounds |-> buckets,
     counts |-> [i \in 1..(Len(buckets) + 1) |-> 0]]

\* TimeHistogram::new(buckets): the same for the histogram of durations.
TimeHistogram_new(buckets) ==
    [live |-> TRUE, type |-> "TimeHistogram", bounds |-> buckets,
     counts |-> [i \in 1..(Len(buckets) + 1) |-> 0]]

\* The boundaries of a slice in ascending order, each once.
RECURSIVE Ascending(_)
Ascending(set) ==
    IF set = {} THEN <<>>
    ELSE LET least == CHOOSE x \in set : \A y \in set : x <= y
         IN <<least>> \o Ascending(set \ {least})

\* new_metric that hands over the boundaries sorted and without repetitions.
new_metric_Sorted(self) == Histogram_new(Ascending(Range(self.buckets)))

\* <HistogramBuilder as MetricConstructor<Histogram>>::new_metric
new_metric_Histogram(self) == Histogram_new(Cloned(self.buckets))

\* <HistogramBuilder as MetricConstructor<TimeHistogram>>::new_metric
new_metric_TimeHistogram(self) == TimeHistogram_new(Cloned(self.buckets))

\* The impl the family's metric type selects.
new_metric(self, type) ==
    IF type = "Histogram" THEN new_metric_Histogram(self)
    ELSE new_metric_TimeHistogram(self)

\* ------------------------------------------------------------- family access
\* The bucket an observation counts in: the first boundary, in the order
\* stored, that is not below the value, else +Inf.
BucketOf(bounds, v) ==
    IF \E i \in 1..Len(bounds) : v <= bounds[i]
    THEN CHOOSE i \in 1..Len(bounds) :
            v <= bounds[i] /\ \A j \in 1..(i - 1) : v > bounds[j]
    ELSE Len(bounds) + 1

\* Histogram::observe
observe(metric, v) ==
    [metric EXCEPT !.counts[BucketOf(metric.bounds, v)] = @ + 1]

\* An address no object lives at.
FreeAddress == CHOOSE x \in Addresses : ~heap[x].live /\ \A y \in 1..(x - 1) : heap[y].live

\* The sum of a function's values over a set of arguments.
RECURSIVE Total(_, _)
Total(f, S) ==
    IF S = {} THEN 0
    ELSE LET x == CHOOSE y \in S : TRUE IN f[x] + Total(f, S \ {x})

\* The accesses begun so far.
Accesses == Cardinality({a \in Callers : at[a] # "idle"}) + Total(observed, LabelSets)

\* The map key of a label set with every label set filed under one key.
FamilyKey_OneKey(l) == CHOOSE k \in LabelSets : TRUE

\* The key of the family's map for a label set.
FamilyKey(l) == l

\* Application code calls the accessor with a label set.
Access(a) ==
    /\ at[a] = "idle"
    /\ Accesses < MaxObs
    /\ \E l \in LabelSets : labelSet' = [labelSet EXCEPT ![a] = l]
    /\ at' = [at EXCEPT ![a] = "lookup"]
    /\ UNCHANGED <<core, ctor, metricType, family, heap, fresh, handle, observed>>

\* get_or_create, first look: the metric of the label set if there is one.
Lookup(a) ==
    /\ at[a] = "lookup"
    /\ IF family[FamilyKey(labelSet[a])] # Null
       THEN /\ handle' = [handle EXCEPT ![a] = family[FamilyKey(labelSet[a])]]
            /\ at' = [at EXCEPT ![a] = "use"]
       ELSE /\ at' = [at EXCEPT ![a] = "construct"]
            /\ UNCHANGED handle
    /\ UNCHANGED <<core, ctor, metricType, family, heap, labelSet, fresh, observed>>

\* get_or_create, no metric found: the constructor builds one.
Construct(a) ==
    /\ at[a] = "construct"
    /\ fresh' = [fresh EXCEPT ![a] = FreeAddress]
    /\ heap' = [heap EXCEPT ![FreeAddress] = new_metric(ctor, metricType)]
    /\ at' = [at EXCEPT ![a] = "install"]
    /\ UNCHANGED <<core, ctor, metricType, family, labelSet, handle, observed>>

\* Install that files the metric it constructed whatever the map holds.
Install_Overwrites(a) ==
    /\ at[a] = "install"
    /\ family' = [family EXCEPT ![FamilyKey(labelSet[a])] = fresh[a]]
    /\ handle' = [handle EXCEPT ![a] = fresh[a]]
    /\ fresh' = [fresh EXCEPT ![a] = Null]
    /\ at' = [at EXCEPT ![a] = "use"]
    /\ UNCHANGED <<core, ctor, metricType, heap, labelSet, observed>>

\* get_or_create, exclusive section: the metric constructed is filed under the
\* label set unless another caller filed one meanwhile; then that one is
\* returned and the metric constructed is dropped.
Install(a) ==
    /\ at[a] = "install"
    /\ IF family[FamilyKey(labelSet[a])] = Null
       THEN /\ family' = [family EXCEPT ![FamilyKey(labelSet[a])] = fresh[a]]
            /\ handle' = [handle EXCEPT ![a] = fresh[a]]
            /\ UNCHANGED heap
       ELSE /\ handle' = [handle EXCEPT ![a] = family[FamilyKey(labelSet[a])]]
            /\ heap' = [heap EXCEPT ![fresh[a]] = NoObject]
            /\ UNCHANGED family
    /\ fresh' = [fresh EXCEPT ![a] = Null]
    /\ at' = [at EXCEPT ![a] = "use"]
    /\ UNCHANGED <<core, ctor, metricType, labelSet, observed>>

\* The caller observes a value through the handle it was returned.
Observe(a) ==
    /\ at[a] = "use"
    /\ \E v \in Samples :
        heap' = [heap EXCEPT ![handle[a]] = observe(@, v)]
    /\ observed' = [observed EXCEPT ![labelSet[a]] = @ + 1]
    /\ handle' = [handle EXCEPT ![a] = Null]
    /\ labelSet' = [labelSet EXCEPT ![a] = NoLabels]
    /\ at' = [at EXCEPT ![a] = "idle"]
    /\ UNCHANGED <<core, ctor, metricType, family, fresh>>

FamilyNext ==
    \/ \E a \in Callers : Access(a)
    \/ \E a \in Callers : Lookup(a)
    \/ \E a \in Callers : Construct(a)
    \/ \E a \in Callers : Install(a)
    \/ \E a \in Callers : Observe(a)

FamilySpec == FamilyInit /\ [][FamilyNext]_vars

\* ------------------------------------------------------------- specification
Next ==
    \/ \E c \in Collectors : CollectCall(c)
    \/ \E c \in Collectors : InfoLock(c)
    \/ \E c \in Collectors : CollectInfo(c)
    \/ \E c \in Collectors : StdLock(c)
    \/ \E c \in Collectors : CollectStd(c)
    \/ \E c \in Collectors : OptLock(c)
    \/ \E c \in Collectors : CollectOpt(c)
    \/ \E c \in Collectors : CollectThird(c)
    \/ \E c \in Collectors : CollectReturn(c)
    \/ \E r \in Reporters : ReportCall(r)
    \/ \E r \in Reporters : ReportLock(r)
    \/ \E r \in Reporters : ReportInsert(r)
    \/ \E m \in Range(StdMetrics) : IncStd(m)
    \/ \E m \in Range(OptMetrics) : IncOpt(m)
    \/ \E m \in Range(ThirdPartyMetrics) : IncThirdParty(m)

Spec == Init /\ [][Next]_vars

\* ------------------------------------------------------------- fair scheduling
\* The steps of a thread that is inside a call.  Calling is up to the caller;
\* once inside, a thread is scheduled again and again, and a thread waiting for
\* a registry lock (parking_lot's RwLock, eventually fair) is granted it if it
\* comes free often enough.
CollectRuns(c) ==
    \/ CollectInfo(c) \/ CollectStd(c) \/ CollectOpt(c) \/ CollectThird(c)
    \/ CollectReturn(c)

CollectLocks(c) == InfoLock(c) \/ StdLock(c) \/ OptLock(c)

Fairness ==
    /\ \A c \in Collectors : WF_vars(CollectRuns(c)) /\ SF_vars(CollectLocks(c))
    /\ \A r \in Reporters : WF_vars(ReportInsert(r)) /\ SF_vars(ReportLock(r))

FairSpec == Spec /\ Fairness

\* ------------------------------------------------------------- properties
\* The steps a call with this flag has to run.
Required(flag) == {"info", "std", "third"} \cup (IF flag THEN {"opt"} ELSE {})

\* The lines of a buffer that belong to the metrics named.
Section(buf, names) == SelectSeq(buf, LAMBDA l : l.name \in names)

\* The positions of a buffer that hold lines of the metrics named.
Positions(buf, names) == {i \in 1..Len(buf) : buf[i].name \in names}

InfoText(c) == EncodeInfo(seen[c].order, seen[c].info).out
StdText(c) == EncodeRegistry(StdMetrics, seen[c].std)
OptText(c) == EncodeRegistry(OptMetrics, seen[c].opt)
ThirdText(c) == EncodeRegistry(ThirdPartyMetrics, seen[c].third)

\* C1: when collect returns Ok, the buffer holds what it held before the call
\* followed by, in this order, the text of the info metrics, of the standard
\* registry, of the optional registry if collect_optional is set, and of the
\* third-party registry, each as the registry stood when its step read it.
C1_StepOrder ==
    \A c \in Collectors :
        pc[c] = "ok" =>
            buffer[c] = buffer0[c] \o InfoText(c) \o StdText(c)
                            \o (IF collect_optional[c] THEN OptText(c) ELSE <<>>)
                            \o ThirdText(c)

\* A successful collect(true) into a buffer that held bytes, with an info
\* metric stored: all four sections are in the buffer.
C1_Witness ==
    \E c \in Collectors :
        /\ pc[c] = "ok"
        /\ collect_optional[c]
        /\ buffer0[c] = <<PreLine>>
        /\ seen[c].order # <<>>
        /\ Len(buffer[c]) = 9

\* C2: a collect(false) call never takes the optional registry's lock, never
\* runs the optional step and never has a line of an optional metric in its
\* buffer; a successful collect(true) holds the complete text of the standard
\* and of the optional registry, every standard line before every optional line.
C2_OptionalGating ==
    \A c \in Collectors :
        /\ ~collect_optional[c] =>
            /\ pc[c] \notin {"opt", "opt_encode"}
            /\ c \notin readers["opt"]
            /\ "opt" \notin seen[c].steps
            /\ Positions(buffer[c], Range(OptMetrics)) = {}
        /\ (pc[c] = "ok" /\ collect_optional[c]) =>
            /\ Section(buffer[c], Range(StdMetrics)) = StdText(c)
            /\ Section(buffer[c], Range(OptMetrics)) = OptText(c)
            /\ \A i \in Positions(buffer[c], Range(StdMetrics)) :
                \A j \in Positions(buffer[c], Range(OptMetrics)) : i < j

\* A collect(false) returned Ok and then, on the same registries, with an
\* optional metric updated, a collect(true) returned Ok.
C2_Witness ==
    \E c \in Collectors :
        /\ lastOut.valid
        /\ pc[c] = "ok"
        /\ collect_optional[c]
        /\ ~mutated[c]
        /\ \E m \in Range(OptMetrics) : OPT_REGISTRY[m] > 0

\* C3: with either flag, a call that returns Ok has run the third-party step,
\* its buffer ends with the third-party text, and the third-party step is the
\* last one: no step of the call is still to run once it has run.
C3_ThirdPartyAlways ==
    \A c \in Collectors :
        /\ pc[c] = "ok" =>
            /\ "third" \in seen[c].steps
            /\ Len(buffer[c]) >= Len(ThirdText(c))
            /\ SubSeq(buffer[c], Len(buffer[c]) - Len(ThirdText(c)) + 1, Len(buffer[c]))
                 = ThirdText(c)
        /\ "third" \in seen[c].steps =>
            /\ pc[c] \in {"ok", "err"}
            /\ seen[c].steps = Required(collect_optional[c])

\* A collect(false) returned Ok with the third-party metric's updated value.
C3_Witness ==
    \E c \in Collectors :
        /\ pc[c] = "ok"
        /\ ~collect_optional[c]
        /\ \E m \in Range(ThirdPartyMetrics) :
            /\ seen[c].third[m] > 0
            /\ buffer[c][Len(buffer[c])] = SampleLine(m, <<>>, seen[c].third[m])

\* The lines of a buffer that carry the labels of an info-metric instance.
LabelledLines(buf, inst) == {i \in 1..Len(buf) : buf[i].labels = Labels(inst)}

\* The sample lines of info metrics in a buffer.
InfoSamples(buf) == {i \in 1..Len(buf) : buf[i].labels # <<>>}

\* The types for which an info registry holds an instance.
Stored(reg) == {T \in TypeIds : reg[T] # NoEntry}

\* The info registry a call's output is to be compared with: the registry as
\* it stands if nothing changed during the call, else what the info step read.
InfoRead(c) == IF mutated[c] THEN seen[c].info ELSE INFO_REGISTRY

\* A reporter's step from "insert" back to "idle": its insert.
Inserts(r) == pc[r] = "insert" /\ pc'[r] = "idle"

\* C4: every insert of report_info leaves the reported instance as the one
\* stored for its type; a type has at most one place in the registry; and a
\* collect that returns Ok has, for every instance value, as many records with
\* that value's labels as there are types storing it, so the latest instance
\* of a type is in the output once and a replaced one is not.
C4_IdempotentInfo ==
    /\ [](/\ \A T \in TypeIds :
              Cardinality({i \in 1..Len(infoOrder) : infoOrder[i] = T})
                = (IF INFO_REGISTRY[T] # NoEntry THEN 1 ELSE 0)
          /\ \A c \in Collectors :
              pc[c] = "ok" =>
                  \A inst \in Instances :
                      Cardinality(LabelledLines(buffer[c], inst))
                        = Cardinality({T \in TypeIds : InfoRead(c)[T] = inst}))
    /\ [][\A r \in Reporters :
              Inserts(r) => INFO_REGISTRY'[info_metric[r][1]] = info_metric[r][2]]_vars

\* Two reports of one type and nothing else happened, and a collect returned
\* Ok with the one record of that type.
C4_Witness ==
    \E c \in Collectors, T \in TypeIds :
        /\ pc[c] = "ok"
        /\ ~mutated[c]
        /\ gen = 2
        /\ Stored(INFO_REGISTRY) = {T}
        /\ REGISTRY = [m \in Range(StdMetrics) |-> 0]
        /\ OPT_REGISTRY = [m \in Range(OptMetrics) |-> 0]
        /\ THIRD_PARTY = [m \in Range(ThirdPartyMetrics) |-> 0]
        /\ Cardinality(InfoSamples(buffer[c])) = 1

StepOrder == <<"info", "std", "opt", "third">>

TextOf(c, step) ==
    CASE step = "info" -> InfoText(c)
      [] step = "std" -> StdText(c)
      [] step = "opt" -> OptText(c)
      [] step = "third" -> ThirdText(c)

\* The text of the steps of `order` that are among `steps`, in that order.
RECURSIVE TextOfSteps(_, _, _)
TextOfSteps(c, order, steps) ==
    IF order = <<>> THEN <<>>
    ELSE (IF Head(order) \in steps THEN TextOf(c, Head(order)) ELSE <<>>)
         \o TextOfSteps(c, Tail(order), steps)

\* The text of the steps of a call that completed.
CompletedText(c) == TextOfSteps(c, StepOrder, seen[c].steps \ {seen[c].failed})

\* The steps a call has run when `step` is the latest of them.
StepsThrough(step, flag) ==
    CASE step = "info" -> {"info"}
      [] step = "std" -> {"info", "std"}
      [] step = "opt" -> {"info", "std", "opt"}
      [] step = "third" -> Required(flag)

\* C5: a call is at its error return exactly when one of its steps failed; then
\* the failed step is the last one that ran, the call holds no registry lock,
\* and the buffer holds the old content, the text of the completed steps and a
\* prefix of the failed step's text, nothing of a later step.  A call at its
\* Ok return ran every step its flag asks for and none failed.
C5_FailFast ==
    \A c \in Collectors :
        /\ seen[c].failed # "none" <=> pc[c] = "err"
        /\ pc[c] = "err" =>
            /\ seen[c].steps = StepsThrough(seen[c].failed, collect_optional[c])
            /\ \A reg \in Registries : c \notin readers[reg] /\ writer[reg] # c
            /\ \E k \in 0..Len(TextOf(c, seen[c].failed)) :
                buffer[c] = buffer0[c] \o CompletedText(c)
                                \o Prefix(TextOf(c, seen[c].failed), k)
        /\ pc[c] = "ok" =>
            /\ seen[c].failed = "none"
            /\ seen[c].steps = Required(collect_optional[c])

\* A collect(true) whose standard step failed after writing part of its text:
\* the optional and the third-party step did not run.
C5_Witness ==
    \E c \in Collectors :
        /\ pc[c] = "err"
        /\ collect_optional[c]
        /\ seen[c].failed = "std"
        /\ Len(buffer[c]) > Len(buffer0[c]) + Len(InfoText(c))

\* C6: if the info step read an instance that does not serialize, the call is
\* at its error return with the info step failed; a call at its Ok return read
\* only serializable instances, holds the complete record of every one of
\* them, and no header line of its buffer lacks its sample line.
C6_InfoErrorPropagates ==
    \A c \in Collectors :
        /\ ("info" \in seen[c].steps
              /\ \E T \in Stored(seen[c].info) : ~Serializable(seen[c].info[T]))
            => (pc[c] = "err" /\ seen[c].failed = "info")
        /\ pc[c] = "ok" =>
            /\ \A T \in Stored(seen[c].info) :
                /\ Serializable(seen[c].info[T])
                /\ \E i \in 1..(Len(buffer[c]) - 1) :
                    SubSeq(buffer[c], i, i + 1) = InfoRecord(T, seen[c].info[T])
            /\ \A i \in 1..Len(buffer[c]) :
                buffer[c][i].kind = "header" =>
                    /\ i < Len(buffer[c])
                    /\ buffer[c][i + 1].kind = "sample"
                    /\ buffer[c][i + 1].name = buffer[c][i].name

\* Two info metrics are stored, one of them unserializable, and a collect is
\* at its error return after the info step.
C6_Witness ==
    \E c \in Collectors :
        /\ pc[c] = "err"
        /\ seen[c].failed = "info"
        /\ Stored(seen[c].info) = TypeIds
        /\ \E T \in TypeIds : Serializable(seen[c].info[T])

\* C7: between the call and the return of collect every step leaves the buffer
\* it found as a prefix of the buffer it leaves; the bytes the buffer held at
\* the call stay a prefix of it, and at the error return the old content
\* followed by the text of the completed steps is a prefix of the buffer.
C7_AppendOnly ==
    /\ [](\A c \in Collectors :
            /\ pc[c] # "idle" => IsPrefix(buffer0[c], buffer[c])
            /\ pc[c] = "err" => IsPrefix(buffer0[c] \o CompletedText(c), buffer[c]))
    /\ [][\A c \in Collectors :
            (pc[c] # "idle" /\ pc'[c] # "idle") => IsPrefix(buffer[c], buffer'[c])]_vars

\* A call into a buffer that held bytes failed in its last step: the old bytes
\* and the text of the info and standard steps are still there.
C7_Witness ==
    \E c \in Collectors :
        /\ pc[c] = "err"
        /\ seen[c].failed = "third"
        /\ buffer0[c] = <<PreLine>>
        /\ Len(buffer[c]) >= 1 + Len(StdText(c))

C9_RegistryIndependence ==
    /\ [](\A c \in Collectors :
            pc[c] = "ok" =>
                /\ seen[c].std = REGISTRY =>
                    Section(buffer[c], Range(StdMetrics))
                        = EncodeRegistry(StdMetrics, REGISTRY)
                /\ (collect_optional[c] /\ seen[c].opt = OPT_REGISTRY) =>
                    Section(buffer[c], Range(OptMetrics))
                        = EncodeRegistry(OptMetrics, OPT_REGISTRY))
    /\ [][/\ REGISTRY' # REGISTRY => OPT_REGISTRY' = OPT_REGISTRY
          /\ OPT_REGISTRY' # OPT_REGISTRY => REGISTRY' = REGISTRY]_vars

\* A collect(true) returned Ok; a standard metric was updated after the call
\* read it and the optional registry is as the call read it.
C9_Witness ==
    \E c \in Collectors :
        /\ pc[c] = "ok"
        /\ collect_optional[c]
        /\ seen[c].opt = OPT_REGISTRY
        /\ \E m \in Range(StdMetrics) : REGISTRY[m] > seen[c].std[m]

\* C10: an insert of report_info changes the entry of the reported type and of
\* no other type, also of none that declares the same NAME; the registry
\* iterates over every stored type; and a collect that returns Ok holds as many
\* info records as there were types stored.
C10_KeyedByType ==
    /\ [](/\ Range(infoOrder) = Stored(INFO_REGISTRY)
          /\ \A c \in Collectors :
              pc[c] = "ok" =>
                  Cardinality(InfoSamples(buffer[c]))
                    = Cardinality(Stored(InfoRead(c))))
    /\ [][\A r \in Reporters :
              Inserts(r) =>
                  INFO_REGISTRY' = [INFO_REGISTRY EXCEPT
                                       ![info_metric[r][1]] = info_metric[r][2]]]_vars

\* Instances of two types of one NAME are stored and a collect returned Ok with
\* a record of each.
C10_Witness ==
    \E c \in Collectors :
        /\ pc[c] = "ok"
        /\ ~mutated[c]
        /\ Stored(INFO_REGISTRY) = TypeIds
        /\ \A T1, T2 \in TypeIds : NAME(T1) = NAME(T2)
        /\ Cardinality(InfoSamples(buffer[c])) = 2

\* C11: among concurrent report_info calls each insert is one step taken under
\* the exclusive write lock of the info registry: a reporter is at its insert
\* exactly while it is the lock's writer, and no reader holds the lock then.
\* Whenever no insert is pending the registry holds, for every type, the
\* instance of the call that took the write lock last, and an insert leaves the
\* entry of every other type as it was.
C11_LastWriterWins ==
    /\ [](/\ \A r \in Reporters : pc[r] = "insert" <=> writer["info"] = r
          /\ writer["info"] # NoThread => readers["info"] = {}
          /\ (\A r \in Reporters : pc[r] # "insert") => INFO_REGISTRY = lastLocked)
    /\ [][\A r \in Reporters :
              Inserts(r) =>
                  /\ writer["info"] = r
                  /\ INFO_REGISTRY' = lastLocked
                  /\ \A T \in TypeIds \ {info_metric[r][1]} :
                        INFO_REGISTRY'[T] = INFO_REGISTRY[T]]_vars

\* Two calls report different instances of one type at once: one holds the
\* write lock ahead of its insert while the other waits for it.
C11_Witness ==
    \E r, q \in Reporters :
        /\ pc[r] = "insert"
        /\ pc[q] = "write"
        /\ info_metric[r][1] = info_metric[q][1]
        /\ info_metric[r][2] # info_metric[q][2]

\* The step in which a collect call encodes the info registry.
InfoStep(c) == pc[c] = "info_encode" /\ pc'[c] # "info_encode"

\* C12: a collect call holds the info registry's read lock only for its info
\* step, and no report_info is at its insert meanwhile; while the lock is held
\* the registry does not change.  The info step appends a result of encoding
\* the registry as it stands at that one instant: on success the complete
\* text, one record per stored type with the instance stored then.  No step
\* removes a stored type, so a type stored when the call began is in that text.
C12_InfoSnapshot ==
    /\ [](\A c \in Collectors :
            c \in readers["info"] =>
                /\ pc[c] = "info_encode"
                /\ \A r \in Reporters : pc[r] # "insert")
    /\ [][/\ Stored(INFO_REGISTRY) \subseteq Stored(INFO_REGISTRY')
          /\ \A c \in Collectors :
              /\ c \in readers["info"] =>
                    /\ INFO_REGISTRY' = INFO_REGISTRY
                    /\ infoOrder' = infoOrder
              /\ InfoStep(c) =>
                    /\ c \in readers["info"]
                    /\ \E res \in collect_info_metrics(infoOrder, INFO_REGISTRY) :
                          buffer'[c] = buffer[c] \o res.out
                    /\ pc'[c] # "err" =>
                          /\ buffer'[c] = buffer[c]
                                \o EncodeInfo(infoOrder, INFO_REGISTRY).out
                          /\ \A T \in Stored(INFO_REGISTRY) :
                                LabelledLines(buffer'[c], INFO_REGISTRY[T]) # {}]_vars

\* A collect returned Ok whose info section shows the instance a type had
\* before a report_info that replaced it during the call.
C12_Witness ==
    \E c \in Collectors, T \in TypeIds :
        /\ pc[c] = "ok"
        /\ mutated[c]
        /\ seen[c].info[T] # NoEntry
        /\ INFO_REGISTRY[T] # seen[c].info[T]
        /\ Cardinality(LabelledLines(buffer[c], seen[c].info[T])) = 1
        /\ LabelledLines(buffer[c], INFO_REGISTRY[T]) = {}

\* Counter values compared metric by metric.
Leq(f, g) == \A m \in DOMAIN f : f[m] <= g[m]

\* The buffer's standard and optional sections show these registry contents.
Shows(buf, std, opt) ==
    /\ Section(buf, Range(StdMetrics)) = EncodeRegistry(StdMetrics, std)
    /\ Section(buf, Range(OptMetrics)) = EncodeRegistry(OptMetrics, opt)

\* C13: the registries are read one after the other with no lock held in
\* between.  A collect(true) that returns Ok shows a standard registry content
\* that existed and an optional registry content that existed at the same or a
\* later instant, and between its steps the call holds no registry lock that
\* would keep an update out; nothing ties the two contents to one instant
\* (C13_Witness is an Ok output whose pair of contents never existed).
C13_NoCrossAtomicity ==
    /\ [std |-> REGISTRY, opt |-> OPT_REGISTRY] \in existed
    /\ \A c \in Collectors :
        /\ pc[c] \in {"std", "opt", "third"} =>
              \A reg \in Registries : c \notin readers[reg]
        /\ (pc[c] = "ok" /\ collect_optional[c]) =>
              \E p, q \in existed :
                  /\ Shows(buffer[c], p.std, q.opt)
                  /\ Leq(p.std, q.std)
                  /\ Leq(p.opt, q.opt)

\* An update of a standard metric and then one of an optional metric fell
\* between the standard and the optional step of a collect(true) that returned
\* Ok: its output has the later update and lacks the earlier one, a pair of
\* registry contents that never existed together.
C13_Witness ==
    \E c \in Collectors :
        /\ pc[c] = "ok"
        /\ collect_optional[c]
        /\ \A p \in existed : ~Shows(buffer[c], p.std, p.opt)
        /\ \E m \in Range(StdMetrics) : seen[c].std[m] < REGISTRY[m]
        /\ seen[c].opt = OPT_REGISTRY
        /\ \E m \in Range(OptMetrics) : OPT_REGISTRY[m] > 0

\* The registries whose lock a thread holds, in either mode.
Holds(t) == {reg \in Registries : t \in readers[reg] \/ writer[reg] = t}

\* The registry lock each position of collect is inside of.
LockAt(p) ==
    CASE p = "info_encode" -> {"info"}
      [] p = "std_encode" -> {"std"}
      [] p = "opt_encode" -> {"opt"}
      [] OTHER -> {}

\* C17: a thread in collect holds at most one registry lock, always as a
\* reader and only inside the step that encodes that registry: the info lock
\* is gone before the standard one is taken, the standard one before the
\* optional one, and none is held during the third-party step, at the Ok or
\* error return or outside a call.  A thread in report_info holds nothing but
\* the info registry's write lock, and that only at its insert.
C17_OneLockAtATime ==
    /\ \A c \in Collectors :
        /\ Cardinality(Holds(c)) <= 1
        /\ Holds(c) = LockAt(pc[c])
        /\ \A reg \in Registries : writer[reg] # c
    /\ \A r \in Reporters :
        /\ Holds(r) = (IF pc[r] = "insert" THEN {"info"} ELSE {})
        /\ \A reg \in Registries : r \notin readers[reg]

\* A collect(true) is inside its optional step, holding that registry's read
\* lock, while a report_info holds the info registry's write lock.
C17_Witness ==
    \E c \in Collectors, r \in Reporters :
        /\ pc[c] = "opt_encode"
        /\ Holds(c) = {"opt"}
        /\ writer["info"] = r

\* C19: no step of a collect call, whether it succeeds or fails and with
\* either flag, changes the info, the standard, the optional or the third-party
\* registry.  An info entry changes only by the insert of a report_info of its
\* type and no counter is ever set back, so a collect that returns Ok with the
\* registries as they stand holds a record of every info metric stored, however
\* many collects ran since it was reported.
C19_ReadOnly ==
    /\ [][/\ \A c \in Collectors : pc'[c] # pc[c] => regs' = regs
          /\ \A T \in TypeIds :
                INFO_REGISTRY'[T] # INFO_REGISTRY[T] =>
                    \E r \in Reporters : Inserts(r) /\ info_metric[r][1] = T
          /\ Leq(REGISTRY, REGISTRY')
          /\ Leq(OPT_REGISTRY, OPT_REGISTRY')
          /\ Leq(THIRD_PARTY, THIRD_PARTY')]_vars
    /\ [](\A c \in Collectors :
            (pc[c] = "ok" /\ ~mutated[c]) =>
                \A T \in Stored(INFO_REGISTRY) :
                    LabelledLines(buffer[c], INFO_REGISTRY[T]) # {})

\* An info metric is stored, a collect returned Ok, and with nothing reported
\* since a later collect returned Ok with the metric's record again.
C19_Witness ==
    \E c \in Collectors, T \in TypeIds :
        /\ lastOut.valid
        /\ lastOut.out # <<>>
        /\ \E i \in 1..Len(lastOut.out) :
              lastOut.out[i].labels = Labels(INFO_REGISTRY[T])
        /\ pc[c] = "ok"
        /\ ~mutated[c]
        /\ INFO_REGISTRY[T] # NoEntry
        /\ LabelledLines(buffer[c], INFO_REGISTRY[T]) # {}

\* The positions of a thread in program order.
PcOrder == <<"idle", "write", "insert", "info", "info_encode", "std", "std_encode",
             "opt", "opt_encode", "third", "ok", "err">>
Rank(p) == CHOOSE i \in 1..Len(PcOrder) : PcOrder[i] = p

Count(metric) == Total(metric.counts, DOMAIN metric.counts)
Reported(l) == IF family[l] = Null THEN 0 ELSE Count(heap[family[l]])

Observes(a) == at[a] = "use" /\ at'[a] = "idle"
Constructs(a) == at[a] = "construct" /\ at'[a] = "install"

\* C14: within the family every label set has at most one metric and two
\* label sets never share one; a handle an access returns is the metric filed
\* under its label set, and that metric is never exchanged for another, so
\* every access to a label set reaches the same instance with the value it has
\* accumulated.  An observation through a handle raises the value reported for
\* its label set by one and leaves the value of every other label set alone.
C14_LabelIsolation ==
    /\ [](/\ \A l1, l2 \in LabelSets :
                (l1 # l2 /\ family[l1] # Null) => family[l1] # family[l2]
          /\ \A l \in LabelSets : family[l] # Null => heap[family[l]].live
          /\ \A a \in Callers :
                handle[a] # Null => handle[a] = family[labelSet[a]])
    /\ [][/\ \A l \in LabelSets : family[l] # Null => family'[l] = family[l]
          /\ \A a \in Callers :
                Observes(a) =>
                    \A l \in LabelSets :
                        Reported(l)' = Reported(l) + (IF l = labelSet[a] THEN 1 ELSE 0)]_vars

\* Both label sets have a metric with observations, counted apart, and a
\* caller has looked one of them up again.
C14_Witness ==
    \E a \in Callers :
        /\ Reported(<<"a">>) = 1
        /\ Reported(<<"b">>) = 1
        /\ at[a] = "use"
        /\ handle[a] = family[<<"a">>]

\* The addresses at which a metric object lives.
Live == {x \in Addresses : heap[x].live}

\* C15: when callers race for the first access to one label set, each may
\* have the constructor build a metric, but the family keeps one: every live
\* object is either filed under exactly one label set or still in the hands of
\* the caller that built it ahead of its exclusive section; a caller past that
\* section holds a handle to the metric filed under its label set and nothing
\* it built itself; and the value reported for a label set is the number of
\* observations made through handles to it, none lost.
C15_RaceFreeCreation ==
    /\ \A x \in Live :
          Cardinality({l \in LabelSets : family[l] = x})
            + Cardinality({a \in Callers : fresh[a] = x}) = 1
    /\ \A a \in Callers :
        /\ fresh[a] # Null <=> at[a] = "install"
        /\ at[a] = "use" =>
            /\ handle[a] # Null
            /\ handle[a] = family[labelSet[a]]
            /\ heap[handle[a]].live
    /\ \A l \in LabelSets : Reported(l) = observed[l]

\* Two callers raced for a label set that had no metric and both built one:
\* the first filed its metric and has observed through it, the second is about
\* to find that metric filed and to drop its own.
C15_Witness ==
    \E a, b \in Callers :
        /\ at[a] = "idle"
        /\ at[b] = "install"
        /\ family[labelSet[b]] # Null
        /\ family[labelSet[b]] # fresh[b]
        /\ observed[labelSet[b]] = 1
        /\ Cardinality(Live) = 2

\* C16: every call of new_metric, for Histogram and for TimeHistogram, puts a
\* new object of the family's metric type at an address nothing lived at, with
\* the builder's buckets as its boundaries, the same boundaries in the same
\* order also when they are not ascending or repeat, and a count of zero in
\* every bucket; it leaves every other object, the builder, the family and the
\* registries as they were.  An observation changes the one object it is made
\* through, so instances share no state, and no object's boundaries ever differ
\* from the builder's.
C16_PureConstructor ==
    /\ [](\A x \in Live :
            /\ heap[x].bounds = ctor.buckets
            /\ heap[x].type = metricType
            /\ DOMAIN heap[x].counts = 1..(Len(ctor.buckets) + 1))
    /\ [][\A a \in Callers :
            /\ Constructs(a) =>
                /\ ~heap[fresh'[a]].live
                /\ heap'[fresh'[a]].live
                /\ heap'[fresh'[a]].type = metricType
                /\ heap'[fresh'[a]].bounds = ctor.buckets
                /\ Count(heap'[fresh'[a]]) = 0
                /\ \A x \in Addresses \ {fresh'[a]} : heap'[x] = heap[x]
                /\ ctor' = ctor
                /\ family' = family
                /\ regs' = regs
            /\ Observes(a) =>
                \A x \in Addresses \ {handle[a]} : heap'[x] = heap[x]]_vars

\* A builder whose buckets are not ascending has built two histograms for
\* durations: one has counted an observation, the other, built later for
\* another label set, has counted none.
C16_Witness ==
    \E x, y \in Live :
        /\ ctor.buckets = <<2, 1>>
        /\ metricType = "TimeHistogram"
        /\ Count(heap[x]) = 1
        /\ Count(heap[y]) = 0
        /\ \E a \in Callers : fresh[a] = y


====
